---- MODULE Spec2Model ----
(***************************************************************************)
(* Bundles-Tracker (src/main.py): a single asyncio loop that, every        *)
(* CHECK_INTERVAL seconds, obtains an OAuth token, fetches the offer       *)
(* catalog, diffs it against old_packs.json, posts one Discord webhook     *)
(* message per change and rewrites old_packs.json.                         *)
(*                                                                         *)
(* The coroutine check_for_new_packs is cut at its await points: every     *)
(* action below is the code that runs between two awaits.                  *)
(***************************************************************************)
EXTENDS Integers, Sequences, FiniteSets, TLC

(***************************************************************************)
(* Bounds of the model.                                                    *)
(***************************************************************************)
\* no cycle starts at or after this time (seconds)
MaxTime == 100
\* longest catalog response, in items
MaxItems == 2
\* an OAuth response or a 429 arrives 0..MaxNetDelay seconds after its request
\* (the two responses whose arrival time the program uses)
MaxNetDelay == 1

(***************************************************************************)
(* Program constants.                                                      *)
(***************************************************************************)
\* CHECK_INTERVAL = int(os.getenv("CHECK_INTERVAL", 60))
CHECK_INTERVAL == 60
\* int(response.headers.get("Retry-After", 60))
DefaultRetryAfter == 60
\* f"<@&{ROLE_ID}>"
RoleMention == "<@&ROLE_ID>"

\* Python's None
None == "None"

(***************************************************************************)
(* The environment: what the three remote endpoints can answer.            *)
(***************************************************************************)
\* access tokens the OAuth endpoint hands out
AccessTokens == {"tokA", "tokB"}
\* expires_in values of the OAuth response
ExpiresIn == {60, 200}
\* OAuth statuses other than 200
OAuthFailStatuses == {400, 500}
\* headers of a 429 response: with or without Retry-After
RetryAfterHeaders == {[present |-> FALSE, value |-> 0], [present |-> TRUE, value |-> 30]}
\* catalog statuses other than 200 and 429
CatalogFailStatuses == {401, 500}
\* webhook statuses
WebhookStatuses == {204, 400}
NetDelays == 0..MaxNetDelay

(***************************************************************************)
(* Raw catalog items.  A date string is modelled by the format it is       *)
(* written in and the instant it denotes, which is all strptime sees.      *)
(***************************************************************************)
\* "%Y-%m-%dT%H:%M:%S.%fZ" text denoting epoch second e
FracTs(e) == [fmt |-> "frac", epoch |-> e]
\* "%Y-%m-%dT%H:%M:%SZ" text denoting epoch second e
PlainTs(e) == [fmt |-> "plain", epoch |-> e]
\* a non-empty string in neither format
OtherTs == [fmt |-> "other", epoch |-> 0]
\* the empty string
EmptyTs == [fmt |-> "empty", epoch |-> 0]
\* a JSON value that is no string and is true in Python: a number other than
\* 0 (epoch milliseconds), true, a non-empty array or object
NumberTs == [fmt |-> "number", epoch |-> 0]
\* a JSON value that is no string and is false in Python: null, 0, false
NullTs == [fmt |-> "null", epoch |-> 0]
Img(t, u) == [type |-> t, url |-> u]

\* the keys of a catalog item (section 6 of the specification, line 147-156)
ItemKeys == {"title", "description", "currentPrice", "currencyCode",
             "keyImages", "effectiveDate", "expiryDate"}

\* A raw item is the set of keys present in the JSON object and their values
\* (the value of an absent key is never read).
BaseItem ==
  [keys |-> ItemKeys,
   title |-> "A", description |-> "d1", currentPrice |-> 1999,
   currencyCode |-> "USD",
   keyImages |-> <<Img("OfferImageTall", "https://t1"), Img("OfferImageWide", "https://w1")>>,
   effectiveDate |-> FracTs(100), expiryDate |-> EmptyTs]

ItemA == BaseItem
\* ItemA at another price
ItemAPrice == [BaseItem EXCEPT !.currentPrice = 2499]
\* ItemA written differently: images in another order and another tall image,
\* the same instant without fractional seconds, no expiryDate key
ItemARewritten ==
  [BaseItem EXCEPT !.keyImages = <<Img("OfferImageWide", "https://w1"), Img("OfferImageTall", "https://t2")>>,
                   !.effectiveDate = PlainTs(100), !.keys = ItemKeys \ {"expiryDate"}]
\* another offer, without currency, images and effectiveDate
ItemB ==
  [BaseItem EXCEPT !.title = "B", !.currencyCode = "Unknown", !.currentPrice = 5,
                   !.keys = ItemKeys \ {"keyImages", "effectiveDate"}]
\* an item without any of the keys
ItemBare == [BaseItem EXCEPT !.keys = {}]

\* the catalog items the responses of a cycle are built from
CycleItems == {ItemA, ItemAPrice, ItemARewritten, ItemB, ItemBare}

\* the catalog items the diff is examined on: CycleItems and ItemA with each
\* other field changed
RawItems ==
  CycleItems \cup
  { [BaseItem EXCEPT !.description = "d2"],
    [BaseItem EXCEPT !.keyImages = <<Img("Thumbnail", "https://x"), Img("OfferImageWide", "https://w2"), Img("OfferImageWide", "https://w1")>>],
    [BaseItem EXCEPT !.effectiveDate = PlainTs(200)],
    [BaseItem EXCEPT !.expiryDate = OtherTs, !.keys = ItemKeys \ {"currencyCode"}],
    [BaseItem EXCEPT !.expiryDate = FracTs(300)] }

\* the items the diff is run on: RawItems, and ItemA with a date that is no
\* string
DiffItems ==
  RawItems \cup
  { [BaseItem EXCEPT !.effectiveDate = NumberTs],
    [BaseItem EXCEPT !.expiryDate = NullTs] }

\* the "elements" lists of at most MaxItems items of S
ItemLists(S) == UNION { [1..n -> S] : n \in 0..MaxItems }

(***************************************************************************)
(* Pure helpers of check_for_new_packs.                                    *)
(***************************************************************************)
\* pack.get(key, default)
Get(pack, key, default) == IF key \in pack.keys THEN pack[key] ELSE default

\* what convert_timestamp yields when strptime raises TypeError (line 68: its
\* argument is no str), which the except ValueError of line 71 lets through
TypeError == [text |-> "TypeError", epoch |-> 0]

\* convert_timestamp
convert_timestamp(ts) ==
  IF ts.fmt \in {"empty", "null"} THEN [text |-> "N/A", epoch |-> 0]
  ELSE IF ts.fmt = "number" THEN TypeError
  ELSE IF ts.fmt = "frac" THEN [text |-> "<t:EPOCH:F>", epoch |-> ts.epoch]
  ELSE IF ts.fmt = "plain" THEN [text |-> "<t:EPOCH:F>", epoch |-> ts.epoch]
  ELSE [text |-> "N/A", epoch |-> 0]

\* f"${price_cents / 100:.2f} {currency}" if currency != "Unknown" else "Unknown Price"
pack_price(price_cents, currency) ==
  IF currency # "Unknown"
  THEN [text |-> "$X.XX CCC", dollars |-> price_cents \div 100,
        cents |-> price_cents % 100, currency |-> currency]
  ELSE [text |-> "Unknown Price", dollars |-> 0, cents |-> 0, currency |-> ""]

RECURSIVE FirstImage(_, _, _)
\* next((img["url"] for img in images if img["type"] == tag), "")
FirstImage(images, tag, i) ==
  IF i > Len(images) THEN ""
  ELSE IF images[i].type = tag THEN images[i].url
  ELSE FirstImage(images, tag, i + 1)

pack_name(pack) == Get(pack, "title", "Unknown Name")
tall_image_url(pack) == FirstImage(Get(pack, "keyImages", << >>), "OfferImageTall", 1)
wide_image_url(pack) == FirstImage(Get(pack, "keyImages", << >>), "OfferImageWide", 1)

\* the dict built at lines 158-164
record(pack) ==
  [price          |-> pack_price(Get(pack, "currentPrice", 0), Get(pack, "currencyCode", "Unknown")),
   description    |-> Get(pack, "description", "No Description"),
   imageUrl       |-> wide_image_url(pack),
   activationDate |-> convert_timestamp(Get(pack, "effectiveDate", EmptyTs)),
   expirationDate |-> convert_timestamp(Get(pack, "expiryDate", EmptyTs))]

\* the tuple appended to changes at lines 168-170
change(pack) ==
  [name |-> pack_name(pack), price |-> record(pack).price,
   description |-> record(pack).description,
   wide_image_url |-> wide_image_url(pack), tall_image_url |-> tall_image_url(pack),
   activation_date |-> record(pack).activationDate,
   expiration_date |-> record(pack).expirationDate]

\* {}
EmptyDict == [n \in {} |-> 0]

DictSetMutant(d, k, v) == [n \in DOMAIN d \cup {k} |-> IF n \in DOMAIN d THEN d[n] ELSE v]
\* d[k] = v
DictSet(d, k, v) == [n \in DOMAIN d \cup {k} |-> IF n = k THEN v ELSE d[n]]

IsChangedMutant(old_data, pack) ==
  \/ pack_name(pack) \notin DOMAIN old_data
  \/ old_data[pack_name(pack)].price # record(pack).price
\* old_data.get(pack_name) != record
IsChanged(old_data, pack) ==
  \/ pack_name(pack) \notin DOMAIN old_data
  \/ old_data[pack_name(pack)] # record(pack)

InitialNewDataMutant(old_data) == old_data
\* new_data = {}
InitialNewData(old_data) == EmptyDict

RECURSIVE DiffLoop(_, _, _, _, _)
\* the for loop of lines 146-173, from item i on
DiffLoop(its, old_data, i, nd, ch) ==
  IF i > Len(its) THEN [changes |-> ch, new_data |-> nd]
  ELSE DiffLoop(its, old_data, i + 1,
                DictSet(nd, pack_name(its[i]), record(its[i])),
                IF IsChanged(old_data, its[i]) THEN Append(ch, change(its[i])) ELSE ch)

\* lines 142-173: changes and new_data for a fetch and a prior snapshot
Diff(its, old_data) == DiffLoop(its, old_data, 1, InitialNewData(old_data), << >>)

\* the names of a fetch
Names(its) == { pack_name(its[i]) : i \in 1..Len(its) }

\* the names that occur once in a fetch
UniqueNames(its) ==
  { n \in Names(its) : Cardinality({ i \in 1..Len(its) : pack_name(its[i]) = n }) = 1 }

(***************************************************************************)
(* Files.  A file is absent, holds text json.load rejects, or holds what   *)
(* the program last dumped into it.                                        *)
(***************************************************************************)
AbsentToken == [kind |-> "absent", access_token |-> "", expires_at |-> 0]
CorruptToken == [kind |-> "corrupt", access_token |-> "", expires_at |-> 0]
\* json.dump(token_data, f) with token_data["expires_at"] set
StoredToken(tok, exp) == [kind |-> "ok", access_token |-> tok, expires_at |-> exp]

\* valid JSON that is no token object with "expires_at", such as {}
MalformedToken == [kind |-> "malformed", access_token |-> "", expires_at |-> 0]

AbsentSnapshot == [kind |-> "absent", data |-> EmptyDict]
CorruptSnapshot == [kind |-> "corrupt", data |-> EmptyDict]
\* valid JSON that is no object, such as []
MalformedSnapshot == [kind |-> "malformed", data |-> EmptyDict]
\* json.dump(new_data, f)
StoredSnapshot(d) == [kind |-> "ok", data |-> d]

LoadSnapshotMutant(f) == EmptyDict
\* lines 134-140: old_data is {} unless the file exists and decodes
LoadSnapshot(f) == IF f.kind = "ok" THEN f.data ELSE EmptyDict

CachedTokenUsableMutant(f, t) == f.kind = "ok" /\ t <= f.expires_at
\* lines 53-58: the file exists, decodes, and time.time() < expires_at
CachedTokenUsable(f, t) == f.kind = "ok" /\ t < f.expires_at

SkipCycleMutant(tok) == FALSE
\* line 108: if not token
SkipCycle(tok) == tok \in {None, ""}

ContentMutant(i) == RoleMention
\* lines 178-181: content=f"<@&{ROLE_ID}>" for idx == 0, content=None otherwise
Content(i) == IF i = 0 THEN RoleMention ELSE None

RateLimitPauseMutant(r) == 0
\* line 117: await asyncio.sleep(retry_after)
RateLimitPause(r) == r

IsRateLimitedMutant(st) == st # 200
\* line 114: response.status == 429
IsRateLimited(st) == st = 429

MayStartMutant(p) == p \in {"idle", "sleep"}
\* lines 190-192: check_for_new_packs is called when the loop body starts, that
\* is at startup or when the sleep of the previous iteration has returned
MayStart(p) == p = "idle"

\* line 115: int(response.headers.get("Retry-After", 60))
RetryAfter(h) == IF h.present THEN h.value ELSE DefaultRetryAfter

(***************************************************************************)
(* State.                                                                  *)
(***************************************************************************)
VARIABLES
  pc,          \* where main is: "idle" (about to call check_for_new_packs),
               \* "oauth" / "catalog" / "notify" (awaiting that response),
               \* "rate_sleep" (line 117), "sleep" (line 192), "crashed"
  now,         \* time.time(), in seconds
  tokenFile,   \* token_data.json
  snapFile,    \* old_packs.json
  token,       \* token of check_for_new_packs
  retry_after, \* retry_after of check_for_new_packs
  items,       \* items
  changes,     \* changes
  new_data,    \* new_data
  idx,         \* idx of the enumerate loop
  \* what happened in the current cycle
  tokAtStart,  \* token_data.json when the cycle started
  startNow,    \* time at which get_token looked at the file
  snapAtStart, \* old_packs.json when the cycle started
  oauthReqs,   \* POSTs to OAUTH_URL issued in this cycle
  catalogReqs, \* GETs to FORTNITE_PACKS_URL issued in this cycle
  oauthResp,   \* the OAuth response of this cycle
  fetch,       \* how the catalog request of this cycle ended
  sent,        \* POSTs to WEBHOOK_URL issued in this cycle, in order
  wrote,       \* old_packs.json was opened for writing in this cycle
  \* across cycles
  last429,     \* the most recent 429: when it arrived, its headers, retry_after
  catalogAt,   \* when the most recent catalog request was issued
  catalogStatus, \* status of the catalog response of this cycle, 0 before it
  active,      \* calls of check_for_new_packs that have not returned
  inflight,    \* HTTP requests issued and not yet answered
  endedAt,     \* when the last call of check_for_new_packs returned, -1 if none
  notified     \* <<name, record>> pairs for which a completed cycle detected a
               \* change and which every fetch with items since then has
               \* returned unchanged under a name unique in the fetch

vars == <<pc, now, tokenFile, snapFile, token, retry_after, items, changes,
          new_data, idx, tokAtStart, startNow, snapAtStart, oauthReqs,
          catalogReqs, oauthResp, fetch, sent, wrote, last429, catalogAt,
          catalogStatus, active, inflight, endedAt, notified>>

locals == <<token, retry_after, items, changes, new_data, idx>>
cycleLog == <<tokAtStart, startNow, snapAtStart, oauthReqs, catalogReqs,
              oauthResp, fetch, sent, wrote>>

NoResponse == [status |-> 0, at |-> 0, expires_in |-> 0, access_token |-> ""]

\* asyncio.run(main()) with the files found at startup: none, a file cut short
\* while it was written, JSON of another shape, a token that lasts up to the
\* second check
Init ==
  /\ pc = "idle"
  /\ now = 0
  /\ tokenFile \in {AbsentToken, CorruptToken, MalformedToken,
                    StoredToken("tokA", CHECK_INTERVAL)}
  /\ snapFile \in {AbsentSnapshot, CorruptSnapshot, MalformedSnapshot}
  /\ token = None
  /\ retry_after = 0
  /\ items = << >>
  /\ changes = << >>
  /\ new_data = EmptyDict
  /\ idx = 0
  /\ tokAtStart = tokenFile
  /\ startNow = 0
  /\ snapAtStart = snapFile
  /\ oauthReqs = 0
  /\ catalogReqs = 0
  /\ oauthResp = NoResponse
  /\ fetch = "none"
  /\ sent = << >>
  /\ wrote = FALSE
  /\ last429 = [seen |-> FALSE, at |-> 0, r |-> 0, h |-> [present |-> FALSE, value |-> 0]]
  /\ catalogAt = 0
  /\ catalogStatus = 0
  /\ active = 0
  /\ inflight = 0
  /\ endedAt = -1
  /\ notified = {}

(***************************************************************************)
(* Lines 107-113: with the token get_token returned, either skip the check *)
(* or issue the catalog request.                                           *)
(***************************************************************************)
WithToken(tok, t) ==
  /\ token' = tok
  /\ IF SkipCycle(tok)
     THEN /\ pc' = "sleep"
          /\ catalogReqs' = 0
          /\ UNCHANGED catalogAt
     ELSE /\ pc' = "catalog"
          /\ catalogReqs' = 1
          /\ catalogAt' = t

\* the record (lines 158-164) of the item a change (lines 168-170) was made for
RecordOf(c) ==
  [price |-> c.price, description |-> c.description, imageUrl |-> c.wide_image_url,
   activationDate |-> c.activation_date, expirationDate |-> c.expiration_date]

\* the pairs a completed cycle adds to notified: its changes under names that
\* were unique in its fetch (lines 166-184 ran to the end)
Notified ==
  IF wrote
  THEN notified \cup
       { <<changes[j].name, RecordOf(changes[j])>> :
         j \in { k \in 1..Len(changes) : changes[k].name \in UniqueNames(items) } }
  ELSE notified

\* the pairs of S that the fetch its returns unchanged under a unique name
StillReturned(S, its) ==
  { e \in S : /\ e[1] \in UniqueNames(its)
              /\ \E i \in 1..Len(its) : pack_name(its[i]) = e[1] /\ record(its[i]) = e[2] }

\* main line 191, check_for_new_packs lines 106-107, get_token lines 53-61 up
\* to the return of the cached token or the POST of fetch_new_token (line 40)
StartCycle ==
  /\ MayStart(pc)
  /\ now < MaxTime
  /\ tokenFile.kind # "malformed"
  /\ tokAtStart' = tokenFile
  /\ startNow' = now
  /\ snapAtStart' = snapFile
  /\ oauthResp' = NoResponse
  /\ fetch' = "none"
  /\ sent' = << >>
  /\ wrote' = FALSE
  /\ retry_after' = 0
  /\ items' = << >>
  /\ changes' = << >>
  /\ new_data' = EmptyDict
  /\ idx' = 0
  /\ IF CachedTokenUsable(tokenFile, now)
     THEN /\ oauthReqs' = 0
          /\ WithToken(tokenFile.access_token, now)
     ELSE /\ oauthReqs' = 1
          /\ token' = None
          /\ pc' = "oauth"
          /\ catalogReqs' = 0
          /\ UNCHANGED catalogAt
  /\ catalogStatus' = 0
  /\ notified' = Notified
  /\ IF CachedTokenUsable(tokenFile, now) /\ SkipCycle(tokenFile.access_token)
     THEN /\ endedAt' = now
          /\ UNCHANGED <<active, inflight>>
     ELSE /\ active' = active + 1
          /\ inflight' = inflight + 1
          /\ UNCHANGED endedAt
  /\ UNCHANGED <<now, tokenFile, snapFile, last429>>

\* get_token line 57: token_data["expires_at"] on JSON of another shape raises
\* KeyError or TypeError; only json.JSONDecodeError is caught
TokenFileRaise ==
  /\ MayStart(pc)
  /\ now < MaxTime
  /\ tokenFile.kind = "malformed"
  /\ tokAtStart' = tokenFile
  /\ startNow' = now
  /\ snapAtStart' = snapFile
  /\ oauthResp' = NoResponse
  /\ fetch' = "none"
  /\ sent' = << >>
  /\ wrote' = FALSE
  /\ retry_after' = 0
  /\ items' = << >>
  /\ changes' = << >>
  /\ new_data' = EmptyDict
  /\ idx' = 0
  /\ oauthReqs' = 0
  /\ catalogReqs' = 0
  /\ token' = None
  /\ pc' = "crashed"
  /\ catalogStatus' = 0
  /\ notified' = Notified
  /\ UNCHANGED <<now, tokenFile, snapFile, last429, catalogAt, active, inflight,
                 endedAt>>

\* fetch_new_token lines 41-46: status 200
OAuthOk ==
  /\ pc = "oauth"
  /\ \E tok \in AccessTokens, ei \in ExpiresIn, d \in NetDelays :
       /\ now' = now + d
       /\ tokenFile' = StoredToken(tok, now' + ei)
       /\ oauthResp' = [status |-> 200, at |-> now', expires_in |-> ei, access_token |-> tok]
       /\ WithToken(tok, now')
       /\ IF SkipCycle(tok)
          THEN /\ active' = active - 1
               /\ inflight' = inflight - 1
               /\ endedAt' = now'
          ELSE UNCHANGED <<active, inflight, endedAt>>
  /\ UNCHANGED <<snapFile, retry_after, items, changes, new_data, idx,
                 tokAtStart, startNow, snapAtStart, oauthReqs, fetch, sent,
                 wrote, last429, catalogStatus, notified>>

\* fetch_new_token lines 47-49: any other status
OAuthFail ==
  /\ pc = "oauth"
  /\ \E st \in OAuthFailStatuses, d \in NetDelays :
       /\ now' = now + d
       /\ oauthResp' = [status |-> st, at |-> now', expires_in |-> 0, access_token |-> ""]
       /\ WithToken(None, now')
       /\ IF SkipCycle(None)
          THEN /\ active' = active - 1
               /\ inflight' = inflight - 1
               /\ endedAt' = now'
          ELSE UNCHANGED <<active, inflight, endedAt>>
  /\ UNCHANGED <<tokenFile, snapFile, retry_after, items, changes, new_data, idx,
                 tokAtStart, startNow, snapAtStart, oauthReqs, fetch, sent,
                 wrote, last429, catalogStatus, notified>>

\* line 40: session.post raises (aiohttp.ClientError); nothing up to
\* asyncio.run catches it
OAuthRaise ==
  /\ pc = "oauth"
  /\ pc' = "crashed"
  /\ active' = active - 1
  /\ inflight' = inflight - 1
  /\ UNCHANGED <<now, tokenFile, snapFile, locals, cycleLog, last429, catalogAt,
                 catalogStatus, endedAt, notified>>

\* lines 114-117: status 429
Catalog429 ==
  /\ pc = "catalog"
  /\ \E st \in {429} \cup CatalogFailStatuses :
       /\ IsRateLimited(st)
       /\ catalogStatus' = st
  /\ \E h \in RetryAfterHeaders, d \in NetDelays :
       /\ now' = now + d
       /\ retry_after' = RetryAfter(h)
       /\ last429' = [seen |-> TRUE, at |-> now', r |-> RetryAfter(h), h |-> h]
  /\ fetch' = "429"
  /\ pc' = "rate_sleep"
  /\ inflight' = inflight - 1
  /\ UNCHANGED <<tokenFile, snapFile, token, items, changes, new_data, idx,
                 tokAtStart, startNow, snapAtStart, oauthReqs, catalogReqs,
                 oauthResp, sent, wrote, catalogAt, active, endedAt, notified>>

\* lines 117-118: the sleep ends and the check returns
RateLimitSleep ==
  /\ pc = "rate_sleep"
  /\ now' = now + RateLimitPause(retry_after)
  /\ pc' = "sleep"
  /\ active' = active - 1
  /\ endedAt' = now'
  /\ UNCHANGED <<tokenFile, snapFile, locals, cycleLog, last429, catalogAt,
                 catalogStatus, inflight, notified>>

\* lines 119-121: a status other than 200 and 429
CatalogFail ==
  /\ pc = "catalog"
  /\ \E st \in CatalogFailStatuses :
       /\ st \notin {200, 429}
       /\ ~IsRateLimited(st)
       /\ catalogStatus' = st
  /\ fetch' = "http_error"
  /\ pc' = "sleep"
  /\ active' = active - 1
  /\ inflight' = inflight - 1
  /\ endedAt' = now
  /\ UNCHANGED <<now, tokenFile, snapFile, locals, tokAtStart, startNow, snapAtStart,
                 oauthReqs, catalogReqs, oauthResp, sent, wrote, last429, catalogAt,
                 notified>>

\* lines 122-126: response.json() raises aiohttp.ContentTypeError
CatalogInvalidJson ==
  /\ pc = "catalog"
  /\ fetch' = "invalid_json"
  /\ pc' = "sleep"
  /\ catalogStatus' = 200
  /\ active' = active - 1
  /\ inflight' = inflight - 1
  /\ endedAt' = now
  /\ UNCHANGED <<now, tokenFile, snapFile, locals, tokAtStart, startNow, snapAtStart,
                 oauthReqs, catalogReqs, oauthResp, sent, wrote, last429, catalogAt,
                 notified>>

\* line 113: session.get raises; line 115: Retry-After is not a number;
\* line 123: json.JSONDecodeError on a body sent as application/json;
\* line 128: the body is not an object.  Nothing up to asyncio.run catches it.
CatalogRaise ==
  /\ pc = "catalog"
  /\ fetch' = "raised"
  /\ pc' = "crashed"
  /\ active' = active - 1
  /\ inflight' = inflight - 1
  /\ UNCHANGED <<now, tokenFile, snapFile, locals, tokAtStart, startNow, snapAtStart,
                 oauthReqs, catalogReqs, oauthResp, sent, wrote, last429, catalogAt,
                 catalogStatus, endedAt, notified>>

\* lines 123-186 up to the first send: status 200 and a JSON object
CatalogOk ==
  /\ pc = "catalog"
  /\ \E its \in ItemLists(CycleItems) :
       /\ items' = its
       /\ IF its = << >>
          THEN /\ fetch' = "empty"
               /\ pc' = "sleep"
               /\ UNCHANGED <<changes, new_data, notified>>
          ELSE /\ snapFile.kind # "malformed"
               /\ fetch' = "items"
               /\ changes' = Diff(its, LoadSnapshot(snapFile)).changes
               /\ new_data' = Diff(its, LoadSnapshot(snapFile)).new_data
               /\ pc' = IF changes' # << >> THEN "notify" ELSE "sleep"
               /\ notified' = StillReturned(notified, its)
  /\ catalogStatus' = 200
  /\ IF pc' = "sleep"
     THEN /\ active' = active - 1
          /\ inflight' = inflight - 1
          /\ endedAt' = now
     ELSE UNCHANGED <<active, inflight, endedAt>>
  /\ UNCHANGED <<now, tokenFile, snapFile, token, retry_after, idx, tokAtStart,
                 startNow, snapAtStart, oauthReqs, catalogReqs, oauthResp, sent,
                 wrote, last429, catalogAt>>

\* lines 138 and 166: old_packs.json holds JSON that is no object, json.load
\* returns it, and old_data.get raises AttributeError at the first item
SnapshotRaise ==
  /\ pc = "catalog"
  /\ snapFile.kind = "malformed"
  /\ \E its \in ItemLists(CycleItems) \ {<< >>} : items' = its
  /\ fetch' = "items"
  /\ catalogStatus' = 200
  /\ pc' = "crashed"
  /\ active' = active - 1
  /\ inflight' = inflight - 1
  /\ UNCHANGED <<now, tokenFile, snapFile, token, retry_after, changes, new_data,
                 idx, tokAtStart, startNow, snapAtStart, oauthReqs, catalogReqs,
                 oauthResp, sent, wrote, last429, catalogAt, endedAt, notified>>

\* the payload of send_notification, lines 82-96
Payload(c, content) == [change |-> c, content |-> content]

\* lines 177-184 and 98-102: the webhook answers the send of changes[idx];
\* after the last one old_packs.json is rewritten
SendDone ==
  /\ pc = "notify"
  /\ \E st \in WebhookStatuses :
       sent' = Append(sent, [payload |-> Payload(changes[idx + 1], Content(idx)),
                             raised |-> FALSE, status |-> st])
  /\ idx' = idx + 1
  /\ IF idx' = Len(changes)
     THEN /\ snapFile' = StoredSnapshot(new_data)
          /\ wrote' = TRUE
          /\ pc' = "sleep"
          /\ active' = active - 1
          /\ inflight' = inflight - 1
          /\ endedAt' = now
     ELSE UNCHANGED <<snapFile, wrote, pc, active, inflight, endedAt>>
  /\ UNCHANGED <<now, tokenFile, token, retry_after, items, changes, new_data,
                 tokAtStart, startNow, snapAtStart, oauthReqs, catalogReqs,
                 oauthResp, fetch, last429, catalogAt, catalogStatus, notified>>

\* line 98: session.post raises; the exception leaves check_for_new_packs
SendRaise ==
  /\ pc = "notify"
  /\ sent' = Append(sent, [payload |-> Payload(changes[idx + 1], Content(idx)),
                           raised |-> TRUE, status |-> 0])
  /\ pc' = "crashed"
  /\ active' = active - 1
  /\ inflight' = inflight - 1
  /\ UNCHANGED <<now, tokenFile, snapFile, locals, tokAtStart, startNow, snapAtStart,
                 oauthReqs, catalogReqs, oauthResp, fetch, wrote, last429, catalogAt,
                 catalogStatus, endedAt, notified>>

\* line 192: await asyncio.sleep(CHECK_INTERVAL)
IntervalSleep ==
  /\ pc = "sleep"
  /\ now' = now + CHECK_INTERVAL
  /\ pc' = "idle"
  /\ UNCHANGED <<tokenFile, snapFile, locals, cycleLog, last429, catalogAt,
                 catalogStatus, active, inflight, endedAt, notified>>

Next ==
  \/ StartCycle
  \/ TokenFileRaise
  \/ OAuthOk
  \/ OAuthFail
  \/ OAuthRaise
  \/ Catalog429
  \/ RateLimitSleep
  \/ CatalogFail
  \/ CatalogInvalidJson
  \/ CatalogRaise
  \/ CatalogOk
  \/ SnapshotRaise
  \/ SendDone
  \/ SendRaise
  \/ IntervalSleep

Spec == Init /\ [][Next]_vars

\* the process is stopped after a check that notified and wrote
\* old_packs.json, and is started again (line 195) when its next check would
\* have been due: the files stay, everything in memory is lost
Restart ==
  /\ pc = "sleep"
  /\ wrote
  /\ now' = now + CHECK_INTERVAL
  /\ pc' = "idle"
  /\ active' = 0
  /\ inflight' = 0
  /\ endedAt' = -1
  /\ UNCHANGED <<tokenFile, snapFile, locals, cycleLog, last429, catalogAt,
                 catalogStatus, notified>>

NextRestart ==
  \/ Next
  \/ Restart

SpecRestart == Init /\ [][NextRestart]_vars

\* the event loop runs every coroutine that can run (asyncio.run, line 195):
\* a request is answered or fails, a sleep ends
LiveSpec == Init /\ [][Next]_vars /\ WF_vars(Next)

(***************************************************************************)
(* The diff on its own: lines 134-173 applied to a catalog response and a  *)
(* prior old_packs.json, the write of lines 182-183, and the same response *)
(* diffed again.                                                           *)
(***************************************************************************)
\* old_packs.json as an earlier cycle can have left it
PriorSnapshots ==
  {AbsentSnapshot, CorruptSnapshot} \cup
  { StoredSnapshot(Diff(its, EmptyDict).new_data) : its \in ItemLists(RawItems) \ {<< >>} }

\* building the record of some item of its raises (lines 155-156)
RecordRaises(its) ==
  \E i \in 1..Len(its) :
    \/ convert_timestamp(Get(its[i], "effectiveDate", EmptyTs)) = TypeError
    \/ convert_timestamp(Get(its[i], "expiryDate", EmptyTs)) = TypeError

DiffInit ==
  /\ pc = "diff"
  /\ items \in ItemLists(DiffItems) \ {<< >>}
  /\ snapFile \in PriorSnapshots
  /\ snapAtStart = snapFile
  /\ now = 0
  /\ tokenFile = AbsentToken
  /\ token = "tokA"
  /\ retry_after = 0
  /\ changes = << >>
  /\ new_data = EmptyDict
  /\ idx = 0
  /\ tokAtStart = tokenFile
  /\ startNow = 0
  /\ oauthReqs = 0
  /\ catalogReqs = 0
  /\ oauthResp = NoResponse
  /\ fetch = "items"
  /\ sent = << >>
  /\ wrote = FALSE
  /\ last429 = [seen |-> FALSE, at |-> 0, r |-> 0, h |-> [present |-> FALSE, value |-> 0]]
  /\ catalogAt = 0
  /\ catalogStatus = 0
  /\ active = 0
  /\ inflight = 0
  /\ endedAt = -1
  /\ notified = {}

\* lines 134-173
DiffRun ==
  /\ pc = "diff"
  /\ ~RecordRaises(items)
  /\ changes' = Diff(items, LoadSnapshot(snapFile)).changes
  /\ new_data' = Diff(items, LoadSnapshot(snapFile)).new_data
  /\ pc' = "diffed"
  /\ UNCHANGED <<now, tokenFile, snapFile, token, retry_after, items, idx, cycleLog,
                 last429, catalogAt, catalogStatus, active, inflight, endedAt,
                 notified>>

\* lines 175, 182-183, and the next check receiving the same items
DiffPersist ==
  /\ pc = "diffed"
  /\ ~wrote
  /\ changes # << >>
  /\ snapFile' = StoredSnapshot(new_data)
  /\ wrote' = TRUE
  /\ pc' = "diff"
  /\ UNCHANGED <<now, tokenFile, token, retry_after, items, changes, new_data, idx,
                 tokAtStart, startNow, snapAtStart, oauthReqs, catalogReqs,
                 oauthResp, fetch, sent, last429, catalogAt, catalogStatus, active,
                 inflight, endedAt, notified>>

\* lines 155-156: convert_timestamp raises inside the loop and the exception
\* leaves check_for_new_packs; nothing up to asyncio.run catches it
DiffRaise ==
  /\ pc = "diff"
  /\ RecordRaises(items)
  /\ pc' = "crashed"
  /\ UNCHANGED <<now, tokenFile, snapFile, locals, cycleLog, last429, catalogAt,
                 catalogStatus, active, inflight, endedAt, notified>>

NextDiff ==
  \/ DiffRun
  \/ DiffRaise
  \/ DiffPersist

SpecDiff == DiffInit /\ [][NextDiff]_vars

(***************************************************************************)
(* Properties.                                                             *)
(***************************************************************************)
\* the check of the current cycle is over: it returned or it raised
CycleOver == pc \in {"sleep", "idle", "crashed"}

\* C1: in every cycle old_packs.json is rewritten if and only if at least one
\* change was detected in it, and without a change its contents are what they
\* were before the cycle.
C1_RewrittenIffChange ==
  CycleOver =>
    /\ wrote <=> changes # << >>
    /\ changes = << >> => snapFile = snapAtStart

C3_NeverCrashes == pc # "crashed"

\* C6: get_token returns the stored token without an OAuth request when the
\* token file exists, is readable and now < expires_at; when the file is
\* absent or corrupted, or now >= expires_at, it issues exactly one OAuth
\* request in the cycle, and a 200 response leaves the file holding the new
\* token with expires_at = now + expires_in.
C6_TokenReuse ==
  pc # "idle" =>
    /\ (tokAtStart.kind = "ok" /\ startNow < tokAtStart.expires_at) =>
         /\ oauthReqs = 0
         /\ token = tokAtStart.access_token
         /\ tokenFile = tokAtStart
    /\ (tokAtStart.kind # "ok" \/ startNow >= tokAtStart.expires_at) => oauthReqs = 1
    /\ oauthResp.status = 200 =>
         /\ tokenFile = [kind |-> "ok", access_token |-> oauthResp.access_token,
                         expires_at |-> oauthResp.at + oauthResp.expires_in]
         /\ tokenFile # tokAtStart
         /\ token = oauthResp.access_token

\* C7: a 429 with Retry-After r (60 without the header) ends the cycle with no
\* notification and the snapshot file untouched, and the next check, hence
\* the next catalog request, comes no sooner than r + CHECK_INTERVAL later.
C7_RateLimitBackoff ==
  /\ last429.seen => last429.r = (IF last429.h.present THEN last429.h.value ELSE 60)
  /\ fetch = "429" =>
       /\ sent = << >>
       /\ changes = << >>
       /\ ~wrote
       /\ snapFile = snapAtStart
       /\ pc = "idle" => now >= last429.at + last429.r + CHECK_INTERVAL
  /\ (last429.seen /\ catalogAt > last429.at) =>
       catalogAt >= last429.at + last429.r + CHECK_INTERVAL

\* the catalog request that follows a rate-limited cycle has been issued
C7_Witness ==
  /\ pc = "catalog"
  /\ last429.seen
  /\ catalogAt > last429.at

\* C8: a send that fails, whatever the failure, blocks neither the later sends
\* of the cycle nor the write of the snapshot file, and is not retried.
C8_FailedSendDoesNotBlock ==
  /\ Len(sent) <= Len(changes)
  /\ (CycleOver /\ changes # << >>) =>
       /\ Len(sent) = Len(changes)
       /\ wrote

\* C9 as stated: after a cycle whose fetch gave a non-empty item list the
\* snapshot file holds exactly the names of that fetch.
C9_SnapshotIsLastFetch ==
  (pc = "sleep" /\ fetch = "items") =>
    /\ snapFile.kind = "ok"
    /\ DOMAIN snapFile.data = Names(items)

\* C9 amended: after a cycle that wrote the snapshot file, the file holds
\* exactly the names of that fetch, each with the record of its last item; a
\* cycle whose fetch gave items but no change leaves the file as it was.
C9_WrittenSnapshotIsLastFetch ==
  /\ wrote =>
       /\ fetch = "items"
       /\ snapFile.kind = "ok"
       /\ DOMAIN snapFile.data = Names(items)
       /\ \A i \in 1..Len(items) :
            (\A j \in (i + 1)..Len(items) : pack_name(items[j]) # pack_name(items[i]))
              => snapFile.data[pack_name(items[i])] = record(items[i])
  /\ (pc = "sleep" /\ fetch = "items" /\ changes = << >>) => snapFile = snapAtStart

\* a cycle wrote a snapshot from which a stored name has disappeared
C9_Witness ==
  /\ pc = "sleep"
  /\ wrote
  /\ snapAtStart.kind = "ok"
  /\ \E n \in DOMAIN snapAtStart.data : n \notin DOMAIN snapFile.data

\* get_token has returned in the current cycle
GetTokenReturned == pc # "idle" /\ (oauthReqs = 0 \/ oauthResp.status # 0)

\* C10 as stated: when the OAuth request fails or the token file is corrupted,
\* get_token returns no token and the cycle is skipped.
C10_NoTokenSkipsCycle ==
  (GetTokenReturned /\ (tokAtStart.kind = "corrupt" \/ oauthResp.status \notin {0, 200})) =>
    /\ token = "None"
    /\ catalogReqs = 0
    /\ sent = << >>
    /\ ~wrote
    /\ snapFile = snapAtStart
    /\ pc # "crashed"

\* C10 amended: when the OAuth request gets a status other than 200, get_token
\* returns no token and the cycle is skipped (no catalog request, no
\* notification, no write, no crash); a corrupted token file only causes that
\* OAuth request to be made.
C10_FailedOAuthSkipsCycle ==
  /\ (pc # "idle" /\ oauthResp.status \notin {0, 200}) =>
       /\ token = "None"
       /\ catalogReqs = 0
       /\ sent = << >>
       /\ ~wrote
       /\ snapFile = snapAtStart
       /\ tokenFile = tokAtStart
       /\ pc = "sleep"
  /\ (pc # "idle" /\ tokAtStart.kind = "corrupt") => oauthReqs = 1

\* the OAuth request made for a corrupted token file failed
C10_Witness ==
  /\ pc = "sleep"
  /\ tokAtStart.kind = "corrupt"
  /\ oauthResp.status = 500
  /\ catalogReqs = 0

(***************************************************************************)
(* Properties of the diff, under SpecDiff.                                 *)
(***************************************************************************)
\* the record of a raw item differs from the stored entry in one of the five
\* fields
FieldDiffers(old, it) ==
  LET e == old[pack_name(it)] IN
  \/ e.price # pack_price(Get(it, "currentPrice", 0), Get(it, "currencyCode", "Unknown"))
  \/ e.description # Get(it, "description", "No Description")
  \/ e.imageUrl # wide_image_url(it)
  \/ e.activationDate # convert_timestamp(Get(it, "effectiveDate", EmptyTs))
  \/ e.expirationDate # convert_timestamp(Get(it, "expiryDate", EmptyTs))

\* the changes emitted for name n
ChangesNamed(n) == { j \in 1..Len(changes) : changes[j].name = n }

\* the first diff of the items has run
FirstDiffDone == pc = "diffed" /\ ~wrote

\* C4 as stated: a name whose record differs from its stored entry gets
\* exactly one change, and the new snapshot differs from the prior one for
\* that name only.
C4_OneChangeOnlyThatName ==
  FirstDiffDone =>
    LET old == LoadSnapshot(snapFile) IN
    \A i \in 1..Len(items) :
      LET n == pack_name(items[i]) IN
      (n \in DOMAIN old /\ FieldDiffers(old, items[i])) =>
        /\ Cardinality(ChangesNamed(n)) = 1
        /\ \A m \in (DOMAIN old \cup DOMAIN new_data) \ {n} :
             m \in DOMAIN old /\ m \in DOMAIN new_data /\ new_data[m] = old[m]

\* C4 amended: a change is emitted for exactly the items whose record differs
\* from the stored entry of their name or whose name is not stored (one change
\* for a differing name that occurs once), and the new snapshot differs from
\* the prior one only at names with a change and at stored names absent from
\* the fetch, which are dropped.
C4_ChangePerDifferingItem ==
  FirstDiffDone =>
    LET old == LoadSnapshot(snapFile)
        differing(n) == { i \in 1..Len(items) :
                            /\ pack_name(items[i]) = n
                            /\ (n \notin DOMAIN old \/ FieldDiffers(old, items[i])) }
    IN
    /\ \A n \in Names(items) : Cardinality(ChangesNamed(n)) = Cardinality(differing(n))
    /\ \A j \in 1..Len(changes) : changes[j].name \in Names(items)
    /\ \A m \in DOMAIN old \cup DOMAIN new_data :
         \/ m \in DOMAIN old /\ m \in DOMAIN new_data /\ new_data[m] = old[m]
         \/ ChangesNamed(m) # {}
         \/ m \in DOMAIN old /\ m \notin Names(items) /\ m \notin DOMAIN new_data

\* a stored name came back once with another description and another name
\* came back as stored: one change, for the first
C4_Witness ==
  /\ FirstDiffDone
  /\ Len(items) = 2
  /\ Len(changes) = 1
  /\ snapFile.kind = "ok"
  /\ changes[1].name \in DOMAIN snapFile.data
  /\ snapFile.data[changes[1].name].price = changes[1].price
  /\ snapFile.data[changes[1].name].description # changes[1].description
  /\ DOMAIN new_data = DOMAIN snapFile.data
  /\ Cardinality(DOMAIN new_data) = 2

\* C5: the same items diffed again against the snapshot the first diff
\* produced give no change.
C5_DiffIdempotent == (pc = "diffed" /\ wrote) => changes = << >>

\* C11: a persisted file that cannot be read as what it should hold is treated
\* as absent and never ends the process: with such a token file the cycle
\* issues an OAuth request, and with such a snapshot file every fetched item
\* yields a change and old_packs.json is rewritten in that cycle.
C11_CorruptionTreatedAsAbsent ==
  /\ (pc # "idle" /\ tokAtStart.kind \in {"corrupt", "malformed"}) => oauthReqs = 1
  /\ (snapAtStart.kind \in {"corrupt", "malformed"} /\ fetch = "items" /\ CycleOver) =>
       /\ Len(changes) = Len(items)
       /\ wrote
       /\ pc # "crashed"

\* C12: a cycle whose catalog request is answered with a status other than 200
\* and 429, or with status 200 and an empty item list, is abandoned: nothing is
\* sent, old_packs.json is what it was before the cycle, the token file is what
\* the cycle's get_token left, no sleep is taken inside the check, and the
\* next check starts CHECK_INTERVAL after the response.
C12_AbandonedCycleHasNoEffect ==
  (catalogStatus \notin {0, 200, 429} \/ fetch = "empty") =>
    /\ sent = << >>
    /\ ~wrote
    /\ changes = << >>
    /\ snapFile = snapAtStart
    /\ oauthResp.status # 200 => tokenFile = tokAtStart
    /\ retry_after = 0
    /\ pc \in {"sleep", "idle"}
    /\ pc = "sleep" => now = catalogAt
    /\ pc = "idle" => now = catalogAt + CHECK_INTERVAL

\* a cycle answered with 500 ended and its interval sleep is over, with the
\* snapshot an earlier cycle wrote still in the file
C12_Witness ==
  /\ pc = "idle"
  /\ catalogStatus = 500
  /\ fetch = "http_error"
  /\ snapFile.kind = "ok"
  /\ snapFile = snapAtStart
  /\ now = catalogAt + CHECK_INTERVAL

\* C13: under fairness every cycle that has started eventually ends, whatever
\* its outcome, and the loop comes back to the point where the next check
\* starts.
C13_CycleEndsAndLoopContinues ==
  (pc \in {"oauth", "catalog", "rate_sleep", "notify"}) ~> (pc = "idle")

\* C14: a cycle that detects the changes c1..cn issues exactly n webhook
\* sends, the i-th one for ci, each attempted once, and old_packs.json is
\* written only after the last of them has completed.
C14_AllSentThenPersisted ==
  /\ Len(sent) <= Len(changes)
  /\ \A i \in 1..Len(sent) : sent[i].payload.change = changes[i]
  /\ (CycleOver /\ fetch = "items") => Len(sent) = Len(changes)
  /\ wrote => (Len(sent) = Len(changes) /\ \A i \in 1..Len(sent) : ~sent[i].raised)

\* the items of the fetch whose record the snapshot old does not hold under
\* their name
Differing(old) ==
  { i \in 1..Len(items) :
      \/ pack_name(items[i]) \notin DOMAIN old
      \/ old[pack_name(items[i])] # record(items[i]) }

\* the k-th smallest element of the set of indices D
Nth(D, k) == CHOOSE i \in D : Cardinality({ j \in D : j <= i }) = k

\* C15: the changes are, in fetch order, the changes of exactly the items
\* whose record is absent from or unequal to the prior snapshot's entry for
\* their name, and new_data maps every fetched name, and nothing else, to the
\* record of the last item with that name, whatever the prior snapshot held.
C15_OrderedDiffLastWins ==
  pc = "diffed" =>
    LET D == Differing(LoadSnapshot(snapFile))
    IN /\ Len(changes) = Cardinality(D)
       /\ \A k \in 1..Len(changes) : changes[k] = change(items[Nth(D, k)])
       /\ DOMAIN new_data = Names(items)
       /\ \A n \in Names(items) :
            \E i \in 1..Len(items) :
              /\ pack_name(items[i]) = n
              /\ \A j \in (i + 1)..Len(items) : pack_name(items[j]) # n
              /\ new_data[n] = record(items[i])

\* two items under one name, the first as the prior snapshot holds it and the
\* second not: one change, for the second, and new_data holds the second
C15_Witness ==
  /\ pc = "diffed"
  /\ Len(items) = 2
  /\ pack_name(items[1]) = pack_name(items[2])
  /\ record(items[1]) # record(items[2])
  /\ snapFile.kind = "ok"
  /\ DOMAIN snapFile.data # Names(items)
  /\ changes = <<change(items[2])>>
  /\ new_data[pack_name(items[2])] = record(items[2])

\* the value item i of the fetch supplies for the date field key
DateOf(i, key) == Get(items[i], key, EmptyTs)

\* C16: convert_timestamp returns a display string and never raises for every
\* value an item can supply for effectiveDate or expiryDate: "N/A" for an
\* absent or empty value and for a value in neither format, a string or not,
\* and "<t:EPOCH:F>" only for a string in one of the two formats.
C16_ConvertTimestampTotal ==
  pc # "diff" =>
    /\ pc # "crashed"
    /\ \A i \in 1..Len(items) : \A key \in {"effectiveDate", "expiryDate"} :
         /\ convert_timestamp(DateOf(i, key)).text \in {"N/A", "<t:EPOCH:F>"}
         /\ DateOf(i, key).fmt \notin {"frac", "plain"} =>
              convert_timestamp(DateOf(i, key)).text = "N/A"

\* C17: at every moment at most one check is in progress and at most one
\* request (OAuth, catalog or webhook) is outstanding, a request is outstanding
\* only inside a check, and a check starts only when the previous one has
\* returned and CHECK_INTERVAL has passed since its return.
C17_SingleFlowOfControl ==
  /\ active \in {0, 1}
  /\ inflight \in {0, 1}
  /\ inflight <= active
  /\ (active = 1 /\ endedAt >= 0) => startNow >= endedAt + CHECK_INTERVAL
  /\ (pc = "idle" /\ endedAt >= 0) => (active = 0 /\ now >= endedAt + CHECK_INTERVAL)

\* a second check is in progress, a webhook request outstanding, and it
\* started an interval after the first one returned
C17_Witness ==
  /\ pc = "notify"
  /\ active = 1
  /\ inflight = 1
  /\ endedAt >= 0
  /\ startNow = endedAt + CHECK_INTERVAL

\* C18: once a cycle has detected a change for a record and has completed, no
\* later cycle detects a change or sends a notification for that record while
\* every fetch since returns it unchanged under a name that is unique in the
\* fetch, whatever status the webhook gave and across a stop and restart of
\* the process.
C18_NotifiedAtMostOnce ==
  /\ \A j \in 1..Len(changes) : <<changes[j].name, RecordOf(changes[j])>> \notin notified
  /\ \A i \in 1..Len(sent) :
       <<sent[i].payload.change.name, RecordOf(sent[i].payload.change)>> \notin notified
  /\ \A e \in notified : snapFile.kind = "ok" /\ e[1] \in DOMAIN snapFile.data
                         /\ snapFile.data[e[1]] = e[2]

\* after a restart (no check has returned since the process started) a cycle
\* fetched, unchanged, a record an earlier cycle notified, together with an
\* item that is a change, and has only that one change to send
C18_Witness ==
  /\ pc = "notify"
  /\ endedAt = -1
  /\ startNow > 0
  /\ Len(items) = 2
  /\ Len(changes) = 1
  /\ \E i \in 1..2 : <<pack_name(items[i]), record(items[i])>> \in notified

\* C19: the token file changes only in the step that receives a 200 OAuth
\* response, which stores that response's token; every other step (a failed
\* OAuth request, a cached-token hit, any catalog response, a send, a sleep)
\* leaves it as it was, and a check that starts after the catalog answered
\* with an error status reuses the stored token without an OAuth request
\* while now < expires_at and requests a new one once now >= expires_at.
C19_TokenFileWrittenBy200Only ==
  [][ /\ tokenFile' # tokenFile =>
           /\ pc = "oauth"
           /\ oauthResp'.status = 200
           /\ tokenFile' = StoredToken(oauthResp'.access_token,
                                       oauthResp'.at + oauthResp'.expires_in)
      /\ (pc = "idle" /\ pc' # "idle" /\ catalogStatus \notin {0, 200}
            /\ tokenFile.kind = "ok") =>
           IF now < tokenFile.expires_at
           THEN /\ oauthReqs' = 0
                /\ token' = tokenFile.access_token
                /\ pc' = "catalog"
           ELSE /\ oauthReqs' = 1
                /\ pc' = "oauth"
    ]_vars

\* the catalog answered 401 to the token a 200 OAuth response stored in this
\* cycle; the file still holds that token, not yet expired, when the next
\* check is due
C19_Witness ==
  /\ pc = "idle"
  /\ catalogStatus = 401
  /\ oauthResp.status = 200
  /\ tokenFile = StoredToken(oauthResp.access_token, oauthResp.at + oauthResp.expires_in)
  /\ now < tokenFile.expires_at
  /\ now < MaxTime

====
